---- MODULE Spec2Model ----
(***************************************************************************)
(* Model of walze-zwei: the per-user namespaced alias store                *)
(* (walzecore/src/db/database.rs, walzecore/src/db/mod.rs) and the command *)
(* handlers that drive it (src/commands/alias.rs).                         *)
(*                                                                         *)
(* Spec     drives one User record through its public methods.             *)
(* SpecCmd  drives the shared Users store through the slash commands.      *)
(***************************************************************************)
EXTENDS Naturals, Sequences, FiniteSets, TLC

VARIABLES user, prev, call, ret, users, before, cmd, reply, ncmds, text, out,
          lock, epc, evalExpr, avec, resolved_expr, ai, die, ri, embeds, eret, reexp,
          spc, file, fileFrom, loadRet, hpc, guard, serial

vars == <<user, prev, call, ret, users, before, cmd, reply, ncmds, text, out,
          lock, epc, evalExpr, avec, resolved_expr, ai, die, ri, embeds, eret, reexp,
          spc, file, fileFrom, loadRet, hpc, guard, serial>>

userVars == <<user, prev, call, ret>>
cmdVars == <<users, before, cmd, reply, ncmds>>
textVars == <<text, out>>
snapVars == <<spc, file, fileFrom, loadRet>>

concVars == <<hpc, guard, serial>>
evalVars == <<lock, epc, evalExpr, avec, resolved_expr, ai, die, ri, embeds, eret, reexp>>

----------------------------------------------------------------------------
(* Bounds of the model: how many namespace names besides "default", how    *)
(* many alias tokens and replacement texts, how many chat users and how    *)
(* many commands one behaviour issues.                                     *)

NumNamespaces == 1
NumTokens == 1
NumValues == 2
NumUsers == 2
MaxCmds == 3

NsPool == <<"dnd", "w&g", "LMoP">>
VarPool == <<"adv", "stealth", "ballistics">>
ValPool == <<"2d20", "1d6", "7d6, 1d6">>

Names == {"default"} \cup {NsPool[i] : i \in 1..NumNamespaces}
Vars == {VarPool[i] : i \in 1..NumTokens}
Tokens == {"$" \o v : v \in Vars}
Values == {ValPool[i] : i \in 1..NumValues}
UserIds == 1..NumUsers

(* Command handlers in flight at once, and the commands they serve in      *)
(* SpecConc.                                                               *)
NumHandlers == 2

MaxConcCmds == 2

Handlers == 1..NumHandlers

----------------------------------------------------------------------------
(* std::collections::HashMap as a function with a finite domain.           *)

EmptyMap == [x \in {} |-> ""]

MapInsert(m, k, v) == [x \in (DOMAIN m) \cup {k} |-> IF x = k THEN v ELSE m[x]]

MapRemove(m, k) == [x \in (DOMAIN m) \ {k} |-> m[x]]

(* db::Result: Ok(value) or Err(db::Error::kind(payload)).                 *)

Ok(v) == [ok |-> TRUE, kind |-> "Ok", val |-> v]

Err(kind, payload) == [ok |-> FALSE, kind |-> kind, val |-> payload]

Unit == "()"

----------------------------------------------------------------------------
(* walzecore::db::database::User.  Every method is an operator from the    *)
(* record before the call to [user |-> the record after, ret |-> result].  *)

UserNew_NoDefaultMap ==
    [namespace |-> "default",
     available_namespaces |-> {"default"},
     alias |-> EmptyMap]

UserNew ==
    [namespace |-> "default",
     available_namespaces |-> {"default"},
     alias |-> [n \in {"default"} |-> EmptyMap]]

UserDefault == UserNew

add_namespace_SetOnly(u, name) ==
    [user |-> [u EXCEPT !.alias = MapInsert(@, name, EmptyMap)],
     ret |-> Unit]

add_namespace_ListOnly(u, name) ==
    [user |-> [u EXCEPT !.available_namespaces = @ \cup {name}],
     ret |-> Unit]

add_namespace(u, name) ==
    [user |-> [u EXCEPT !.available_namespaces = @ \cup {name},
                        !.alias = MapInsert(@, name, EmptyMap)],
     ret |-> Unit]

namespace(u) == u.namespace

namespace_mut_Unchecked(u, name) ==
    [user |-> [u EXCEPT !.namespace = name], ret |-> Unit]

namespace_mut(u, name) ==
    [user |-> IF name \in u.available_namespaces
              THEN [u EXCEPT !.namespace = name]
              ELSE u,
     ret |-> Unit]

available_namespaces(u) == u.available_namespaces

alias_mut_KeepExisting(u, k, v) ==
    IF u.namespace \notin DOMAIN u.alias
    THEN [user |-> u, ret |-> Err("InvalidNamespace", u.namespace)]
    ELSE IF k \in DOMAIN u.alias[u.namespace]
         THEN [user |-> u, ret |-> Ok(Unit)]
         ELSE [user |-> [u EXCEPT !.alias[u.namespace] = MapInsert(@, k, v)],
               ret |-> Ok(Unit)]

alias_mut_AllNamespaces(u, k, v) ==
    IF u.namespace \notin DOMAIN u.alias
    THEN [user |-> u, ret |-> Err("InvalidNamespace", u.namespace)]
    ELSE [user |-> [u EXCEPT !.alias =
                        [n \in DOMAIN u.alias |-> MapInsert(u.alias[n], k, v)]],
          ret |-> Ok(Unit)]

alias_mut_CreateMissing(u, k, v) ==
    IF u.namespace \notin DOMAIN u.alias
    THEN [user |-> [u EXCEPT !.alias = MapInsert(@, u.namespace, EmptyMap)],
          ret |-> Err("InvalidNamespace", u.namespace)]
    ELSE [user |-> [u EXCEPT !.alias[u.namespace] = MapInsert(@, k, v)],
          ret |-> Ok(Unit)]

alias_mut(u, k, v) ==
    IF u.namespace \notin DOMAIN u.alias
    THEN [user |-> u, ret |-> Err("InvalidNamespace", u.namespace)]
    ELSE [user |-> [u EXCEPT !.alias[u.namespace] = MapInsert(@, k, v)],
          ret |-> Ok(Unit)]

alias(u, k) ==
    IF u.namespace \notin DOMAIN u.alias
    THEN [user |-> u, ret |-> Err("InvalidNamespace", u.namespace)]
    ELSE IF k \in DOMAIN u.alias[u.namespace]
         THEN [user |-> u, ret |-> Ok(u.alias[u.namespace][k])]
         ELSE [user |-> u, ret |-> Err("AliasNotFound", k)]

aliases(u) ==
    IF u.namespace \notin DOMAIN u.alias
    THEN [user |-> u, ret |-> Err("InvalidNamespace", u.namespace)]
    ELSE [user |-> u,
          ret |-> Ok({<<k, u.alias[u.namespace][k]>> :
                        k \in DOMAIN u.alias[u.namespace]})]

remove_alias_InvalidNamespace(u, k) ==
    IF u.namespace \notin DOMAIN u.alias
    THEN [user |-> u, ret |-> Err("InvalidNamespace", u.namespace)]
    ELSE IF k \in DOMAIN u.alias[u.namespace]
         THEN [user |-> [u EXCEPT !.alias[u.namespace] = MapRemove(@, k)],
               ret |-> Ok(u.alias[u.namespace][k])]
         ELSE [user |-> u, ret |-> Err("AliasNotFound", k)]

remove_alias_NoRemove(u, k) ==
    IF u.namespace \notin DOMAIN u.alias
    THEN [user |-> u, ret |-> Err("NamespaceNotFound", u.namespace)]
    ELSE IF k \in DOMAIN u.alias[u.namespace]
         THEN [user |-> u, ret |-> Ok(u.alias[u.namespace][k])]
         ELSE [user |-> u, ret |-> Err("AliasNotFound", k)]

remove_alias(u, k) ==
    IF u.namespace \notin DOMAIN u.alias
    THEN [user |-> u, ret |-> Err("NamespaceNotFound", u.namespace)]
    ELSE IF k \in DOMAIN u.alias[u.namespace]
         THEN [user |-> [u EXCEPT !.alias[u.namespace] = MapRemove(@, k)],
               ret |-> Ok(u.alias[u.namespace][k])]
         ELSE [user |-> u, ret |-> Err("AliasNotFound", k)]

remove_namespace_NoReset(u, ns) ==
    IF ns \notin u.available_namespaces
    THEN [user |-> u, ret |-> Err("NamespaceNotFound", ns)]
    ELSE LET u1 == [u EXCEPT !.available_namespaces = @ \ {ns}]
         IN  IF ns \in DOMAIN u1.alias
             THEN [user |-> [u1 EXCEPT !.alias = MapRemove(@, ns)],
                   ret |-> Ok(<<ns, u1.alias[ns]>>)]
             ELSE [user |-> u1, ret |-> Err("NamespaceNotFound", ns)]

remove_namespace_WrongError(u, ns) ==
    IF ns \notin u.available_namespaces
    THEN [user |-> u, ret |-> Err("InvalidNamespace", ns)]
    ELSE LET u1 == [u EXCEPT !.available_namespaces = @ \ {ns}]
             u2 == IF u1.namespace = ns
                   THEN [u1 EXCEPT !.namespace = "default"]
                   ELSE u1
         IN  IF ns \in DOMAIN u2.alias
             THEN [user |-> [u2 EXCEPT !.alias = MapRemove(@, ns)],
                   ret |-> Ok(<<ns, u2.alias[ns]>>)]
             ELSE [user |-> u2, ret |-> Err("NamespaceNotFound", ns)]

remove_namespace(u, ns) ==
    IF ns \notin u.available_namespaces
    THEN [user |-> u, ret |-> Err("NamespaceNotFound", ns)]
    ELSE LET u1 == [u EXCEPT !.available_namespaces = @ \ {ns}]
             u2 == IF u1.namespace = ns
                   THEN [u1 EXCEPT !.namespace = "default"]
                   ELSE u1
         IN  IF ns \in DOMAIN u2.alias
             THEN [user |-> [u2 EXCEPT !.alias = MapRemove(@, ns)],
                   ret |-> Ok(<<ns, u2.alias[ns]>>)]
             ELSE [user |-> u2, ret |-> Err("NamespaceNotFound", ns)]

----------------------------------------------------------------------------
(* Spec: one User record, any sequence of calls of its methods.  `prev` is *)
(* the record before the last call, `call` the call and `ret` its result.  *)

Call(op, name, k, v) == [op |-> op, name |-> name, k |-> k, v |-> v]

NoCmd == [op |-> "none", author |-> 0, namespace |-> "", var |-> "", be |-> ""]

NoOut == [fn |-> "none", val |-> << >>]

NoFile == [t |-> "empty", text |-> ""]

Init ==
    /\ user = UserNew
    /\ prev = UserNew
    /\ call = Call("new", "", "", "")
    /\ ret = Unit
    /\ users = EmptyMap
    /\ before = EmptyMap
    /\ cmd = NoCmd
    /\ reply = Unit
    /\ ncmds = 0
    /\ text = << >>
    /\ out = NoOut
    /\ lock = 0
    /\ epc = "idle"
    /\ evalExpr = << >>
    /\ avec = Ok(<< >>)
    /\ resolved_expr = << >>
    /\ ai = 0
    /\ die = << >>
    /\ ri = 0
    /\ embeds = << >>
    /\ eret = Unit
    /\ reexp = FALSE
    /\ spc = "idle"
    /\ file = NoFile
    /\ fileFrom = "initial"
    /\ loadRet = Unit
    /\ hpc = [h \in Handlers |-> "idle"]
    /\ guard = 0
    /\ serial = EmptyMap

Apply(c, r) ==
    /\ prev' = user
    /\ call' = c
    /\ user' = r.user
    /\ ret' = r.ret
    /\ UNCHANGED <<cmdVars, textVars, evalVars, snapVars, concVars>>

New == Apply(Call("new", "", "", ""), [user |-> UserNew, ret |-> Unit])

Default == Apply(Call("default", "", "", ""), [user |-> UserDefault, ret |-> Unit])

AddNamespace ==
    \E n \in Names : Apply(Call("add_namespace", n, "", ""), add_namespace(user, n))

NamespaceMut ==
    \E n \in Names : Apply(Call("namespace_mut", n, "", ""), namespace_mut(user, n))

AliasMut ==
    \E k \in Tokens, v \in Values :
        Apply(Call("alias_mut", "", k, v), alias_mut(user, k, v))

Alias ==
    \E k \in Tokens : Apply(Call("alias", "", k, ""), alias(user, k))

Aliases == Apply(Call("aliases", "", "", ""), aliases(user))

RemoveAlias ==
    \E k \in Tokens : Apply(Call("remove_alias", "", k, ""), remove_alias(user, k))

RemoveNamespace ==
    \E n \in Names :
        Apply(Call("remove_namespace", n, "", ""), remove_namespace(user, n))

Next ==
    \/ New
    \/ Default
    \/ AddNamespace
    \/ NamespaceMut
    \/ AliasMut
    \/ Alias
    \/ Aliases
    \/ RemoveAlias
    \/ RemoveNamespace

Spec == Init /\ [][Next]_vars

----------------------------------------------------------------------------
(* The Users store (walzecore::db::Users, a map of user id to User) and    *)
(* the slash commands of src/commands/alias.rs.  A handler takes the store *)
(* lock on its first line and holds the guard until it returns, so a       *)
(* command acts on the store in one step.  `sent` is whether ctx.send      *)
(* delivered the reply; a failed send returns an error after the store     *)
(* was changed.  A command is an operator from the store before it to      *)
(* [users |-> the store after, ret |-> the handler's result].              *)

entry_or_insert_Overwrite(us, id) == MapInsert(us, id, UserNew)

entry_or_insert(us, id) ==
    IF id \in DOMAIN us THEN us ELSE MapInsert(us, id, UserNew)

get_or_create(us, id) == entry_or_insert(us, id)

namespaces(u) == u.available_namespaces

Send(sent, title) == IF sent THEN Ok(title) ELSE Err("Send", title)

Put(us, id, u) == [us EXCEPT ![id] = u]

delete_alias(us, author, a, sent) ==
    LET us1 == get_or_create(us, author)
        r == remove_alias(us1[author], "$" \o a)
    IN  IF ~r.ret.ok
        THEN [users |-> Put(us1, author, r.user), ret |-> r.ret]
        ELSE [users |-> Put(us1, author, r.user),
              ret |-> Send(sent, "Removed alias")]

create_alias(us, author, var, be, sent) ==
    LET us1 == get_or_create(us, author)
        l == aliases(us1[author])
    IN  IF ~l.ret.ok
        THEN [users |-> us1, ret |-> l.ret]
        ELSE LET title == IF <<var, be>> \in l.ret.val
                          THEN "Updated Alias"
                          ELSE "Added Alias"
                 r == alias_mut(us1[author], "$" \o var, be)
             IN  IF ~r.ret.ok
                 THEN [users |-> Put(us1, author, r.user), ret |-> r.ret]
                 ELSE [users |-> Put(us1, author, r.user),
                       ret |-> Send(sent, title)]

dump_alias(us, author, sent) ==
    LET us1 == get_or_create(us, author)
        l == aliases(us1[author])
    IN  IF ~l.ret.ok
        THEN [users |-> us1, ret |-> l.ret]
        ELSE [users |-> us1, ret |-> Send(sent, "Current Aliases")]

namespace_switch_Unchecked(us, author, ns, sent) ==
    LET us1 == get_or_create(us, author)
    IN  [users |-> Put(us1, author, namespace_mut(us1[author], ns).user),
         ret |-> Send(sent, "Switched namespace")]

namespace_switch(us, author, ns, sent) ==
    LET us1 == get_or_create(us, author)
    IN  IF ns \notin namespaces(us1[author])
        THEN [users |-> us1, ret |-> Err("NamespaceNotFound", ns)]
        ELSE [users |-> Put(us1, author, namespace_mut(us1[author], ns).user),
              ret |-> Send(sent, "Switched namespace")]

namespace_new_Overwrite(us, author, ns, sent) ==
    LET us1 == get_or_create(us, author)
    IN  [users |-> Put(us1, author, add_namespace(us1[author], ns).user),
         ret |-> Send(sent, "Added namespace")]

namespace_new(us, author, ns, sent) ==
    LET us1 == get_or_create(us, author)
    IN  IF ns \in namespaces(us1[author])
        THEN [users |-> us1,
              ret |-> Err("Simple", "cannot rewrite over an existing namespace")]
        ELSE [users |-> Put(us1, author, add_namespace(us1[author], ns).user),
              ret |-> Send(sent, "Added namespace")]

namespace_dump(us, author, sent) ==
    [users |-> get_or_create(us, author),
     ret |-> Send(sent, "Stored Namespaces")]

namespace_delete_Unguarded(us, author, ns, sent) ==
    LET us1 == get_or_create(us, author)
        r == remove_namespace(us1[author], ns)
    IN  IF ~r.ret.ok
        THEN [users |-> Put(us1, author, r.user), ret |-> r.ret]
        ELSE [users |-> Put(us1, author, r.user),
              ret |-> Send(sent, "Removed Namespace: " \o r.ret.val[1])]

namespace_delete(us, author, ns, sent) ==
    LET us1 == get_or_create(us, author)
    IN  IF ns = "default"
        THEN [users |-> us1,
              ret |-> Err("Simple", "cannot drop default namespace")]
        ELSE LET r == remove_namespace(us1[author], ns)
             IN  IF ~r.ret.ok
                 THEN [users |-> Put(us1, author, r.user), ret |-> r.ret]
                 ELSE [users |-> Put(us1, author, r.user),
                       ret |-> Send(sent, "Removed Namespace: " \o r.ret.val[1])]

----------------------------------------------------------------------------
(* SpecCmd: any users issue any commands, at most MaxCmds of them.         *)
(* `before` is the store before the last command, `cmd` the command and    *)
(* `reply` the handler's result.                                           *)

Cmd(op, author, ns, var, be) ==
    [op |-> op, author |-> author, namespace |-> ns, var |-> var, be |-> be]

Run(c, r) ==
    /\ ncmds < MaxCmds
    /\ ncmds' = ncmds + 1
    /\ before' = users
    /\ cmd' = c
    /\ users' = r.users
    /\ reply' = r.ret
    /\ UNCHANGED <<userVars, textVars, evalVars, snapVars, concVars>>

DeleteAlias ==
    \E id \in UserIds, a \in Vars, sent \in BOOLEAN :
        Run(Cmd("delete_alias", id, "", a, ""), delete_alias(users, id, a, sent))

CreateAlias ==
    \E id \in UserIds, var \in Vars, be \in Values, sent \in BOOLEAN :
        Run(Cmd("create_alias", id, "", var, be),
            create_alias(users, id, var, be, sent))

DumpAlias ==
    \E id \in UserIds, sent \in BOOLEAN :
        Run(Cmd("dump_alias", id, "", "", ""), dump_alias(users, id, sent))

NamespaceSwitch ==
    \E id \in UserIds, ns \in Names, sent \in BOOLEAN :
        Run(Cmd("namespace_switch", id, ns, "", ""),
            namespace_switch(users, id, ns, sent))

NamespaceNew ==
    \E id \in UserIds, ns \in Names, sent \in BOOLEAN :
        Run(Cmd("namespace_new", id, ns, "", ""),
            namespace_new(users, id, ns, sent))

NamespaceDump ==
    \E id \in UserIds, sent \in BOOLEAN :
        Run(Cmd("namespace_dump", id, "", "", ""), namespace_dump(users, id, sent))

NamespaceDelete ==
    \E id \in UserIds, ns \in Names, sent \in BOOLEAN :
        Run(Cmd("namespace_delete", id, ns, "", ""),
            namespace_delete(users, id, ns, sent))

NextCmd ==
    \/ DeleteAlias
    \/ CreateAlias
    \/ DumpAlias
    \/ NamespaceSwitch
    \/ NamespaceNew
    \/ NamespaceDump
    \/ NamespaceDelete

SpecCmd == Init /\ [][NextCmd]_vars

----------------------------------------------------------------------------
(* The snapshot (walzecore/src/db/mod.rs, src/main.rs, src/models/mod.rs). *)
(* The content of users.json is either no JSON text at all (t = "empty",   *)
(* t = "malformed") or a JSON document: [t |-> "obj", obj |-> members],    *)
(* [t |-> "arr", arr |-> elements], [t |-> "str", str |-> text].  serde    *)
(* writes                                                                  *)
(* the keys of a map as strings, a HashSet as an array in the iteration    *)
(* order of the set (any order) and a derived struct as an object of its   *)
(* fields, and reads them back the same way; a struct field that is        *)
(* missing, or a value of another shape, fails the whole parse.            *)

JObj(m) == [t |-> "obj", obj |-> m]

JArr(s) == [t |-> "arr", arr |-> s]

JStr(s) == [t |-> "str", str |-> s]

Orders(S) ==
    {s \in [1..Cardinality(S) -> S] : \A x \in S : \E i \in DOMAIN s : s[i] = x}

StrMapDoc(m) == JObj([k \in DOMAIN m |-> JStr(m[k])])

(* #[derive(Serialize)] for User, for one iteration order o of the set     *)
UserDoc_NoNamespaceList(u, o) ==
    JObj([f \in {"namespace", "alias"} |->
            IF f = "namespace" THEN JStr(u.namespace)
            ELSE JObj([n \in DOMAIN u.alias |-> StrMapDoc(u.alias[n])])])

UserDoc(u, o) ==
    JObj([f \in {"namespace", "available_namespaces", "alias"} |->
            CASE f = "namespace" -> JStr(u.namespace)
              [] f = "available_namespaces" -> JArr([i \in DOMAIN o |-> JStr(o[i])])
              [] f = "alias" ->
                    JObj([n \in DOMAIN u.alias |-> StrMapDoc(u.alias[n])])])

UserDocs(u) == {UserDoc(u, o) : o \in Orders(u.available_namespaces)}

KeyIds == 0..9

IsIdKey(k) == \E id \in KeyIds : ToString(id) = k

ParseId(k) == CHOOSE id \in KeyIds : ToString(id) = k

(* Users::to_json: the documents serde_json::to_string(&self.users) can    *)
(* produce, one per iteration order of the sets in the store.              *)
to_json(us) ==
    LET keys == {ToString(id) : id \in DOMAIN us}
    IN  {JObj(m) : m \in
            {f \in [keys -> UNION {UserDocs(us[id]) : id \in DOMAIN us}] :
                \A k \in keys : f[k] \in UserDocs(us[ParseId(k)])}}

(* #[derive(Serialize)] for Users (db/mod.rs:29-35): a struct with the one *)
(* field users, whose value is the map                                     *)
UsersSerialize(us) == {JObj([f \in {"users"} |-> d]) : d \in to_json(us)}

IsStrMapDoc(d) ==
    /\ d.t = "obj"
    /\ \A k \in DOMAIN d.obj : d.obj[k].t = "str"

(* #[derive(Deserialize)] for User                                         *)
IsUserDoc(d) ==
    /\ d.t = "obj"
    /\ {"namespace", "available_namespaces", "alias"} \subseteq DOMAIN d.obj
    /\ d.obj["namespace"].t = "str"
    /\ d.obj["available_namespaces"].t = "arr"
    /\ \A i \in DOMAIN d.obj["available_namespaces"].arr :
          d.obj["available_namespaces"].arr[i].t = "str"
    /\ d.obj["alias"].t = "obj"
    /\ \A n \in DOMAIN d.obj["alias"].obj : IsStrMapDoc(d.obj["alias"].obj[n])

UserFromDoc(d) ==
    [namespace |-> d.obj["namespace"].str,
     available_namespaces |->
        {d.obj["available_namespaces"].arr[i].str :
            i \in DOMAIN d.obj["available_namespaces"].arr},
     alias |->
        [n \in DOMAIN d.obj["alias"].obj |->
            [k \in DOMAIN d.obj["alias"].obj[n].obj |->
                d.obj["alias"].obj[n].obj[k].str]]]

(* serde_json::from_str::<HashMap<T, User>>                                *)
from_str(c) ==
    IF c.t \in {"empty", "malformed", "not utf8"}
    THEN Err("Json", "syntax")
    ELSE IF c.t # "obj"
         THEN Err("Json", "data")
         ELSE IF \E k \in DOMAIN c.obj : ~IsIdKey(k) \/ ~IsUserDoc(c.obj[k])
              THEN Err("Json", "data")
              ELSE Ok([id \in {ParseId(k) : k \in DOMAIN c.obj} |->
                          UserFromDoc(c.obj[ToString(id)])])

(* Deserialize for Users (db/mod.rs:102-113): HashMap::deserialize, then   *)
(* Ok(Users { users })                                                     *)
UsersDeserialize(c) == from_str(c)

(* Users::new: from_str(json).unwrap_or_default(), always Ok               *)
UsersNew(json) ==
    LET r == from_str(json) IN Ok(IF r.ok THEN r.val ELSE EmptyMap)

(* What users.json can hold when the process starts.                       *)
SampleUser ==
    alias_mut(namespace_mut(add_namespace(UserNew, NsPool[1]).user,
                            NsPool[1]).user,
              "$" \o VarPool[1], ValPool[1]).user

FileContents ==
    {NoFile,
     [t |-> "malformed", text |-> "{"],
     JArr(<< >>),
     JStr("users"),
     JObj(EmptyMap),
     JObj([k \in {"x"} |-> UserDoc(UserNew, <<"default">>)]),
     JObj([k \in {"1"} |-> JStr("user")]),
     JObj([k \in {"1"} |->
            JObj([f \in {"namespace", "alias"} |->
                    IF f = "namespace" THEN JStr("default")
                    ELSE JObj(EmptyMap)])]),
     [t |-> "not utf8", text |-> "?"]}
    \cup to_json([id \in {1} |-> SampleUser])

(* Commands served over the life of the process in SpecSnap.               *)
MaxSnapCmds == 1

IoOutcomes == {"ok", "open failed", "read failed"}

(* SpecSnap: the life of the process.  The store is loaded from            *)
(* users.json, commands run, the store is dropped and written back, and    *)
(* the process may be started again.                                       *)

InitSnap ==
    /\ user = UserNew
    /\ prev = UserNew
    /\ call = Call("new", "", "", "")
    /\ ret = Unit
    /\ users = EmptyMap
    /\ before = EmptyMap
    /\ cmd = NoCmd
    /\ reply = Unit
    /\ ncmds = 0
    /\ text = << >>
    /\ out = NoOut
    /\ lock = 0
    /\ epc = "idle"
    /\ evalExpr = << >>
    /\ avec = Ok(<< >>)
    /\ resolved_expr = << >>
    /\ ai = 0
    /\ die = << >>
    /\ ri = 0
    /\ embeds = << >>
    /\ eret = Unit
    /\ reexp = FALSE
    /\ spc = "boot"
    /\ file \in FileContents
    /\ fileFrom = "initial"
    /\ loadRet = Unit
    /\ hpc = [h \in Handlers |-> "idle"]
    /\ guard = 0
    /\ serial = EmptyMap

(* main.rs:135-153  load_users_from_file: open(..).await?, then            *)
(* read_to_string(..).await?, which fails on bytes that are not UTF-8,     *)
(* then "{}" for an empty file, then Users::new(&json)?                    *)
load_users_from_file(content, io) ==
    IF io # "ok"
    THEN Err("Io", io)
    ELSE IF content.t = "not utf8"
         THEN Err("Io", "invalid data")
         ELSE LET json == IF content.t = "empty" THEN JObj(EmptyMap)
                          ELSE content
              IN  UsersNew(json)

LoadUsersFromFile ==
    /\ spc = "boot"
    /\ \E io \in IoOutcomes :
          LET r == load_users_from_file(file, io)
          IN  /\ loadRet' = r
              /\ IF r.ok
                 THEN /\ users' = r.val
                      /\ spc' = "running"
                 ELSE /\ users' = users
                      /\ spc' = "failed"
    /\ cmd' = Cmd("load", 0, "", "", "")
    /\ reply' = Unit
    /\ UNCHANGED <<before, ncmds, file, fileFrom>>
    /\ UNCHANGED <<userVars, textVars, evalVars, concVars>>

(* The commands that change the store                                      *)
SnapCommand ==
    /\ spc = "running"
    /\ ncmds < MaxSnapCmds
    /\ \/ CreateAlias
       \/ NamespaceNew
       \/ NamespaceSwitch

(* models/mod.rs:55-61  Drop for Inner: to_json, then fs::write whose      *)
(* result is discarded.  `before` keeps the store that was dropped.        *)
DropWrite ==
    /\ \E string \in to_json(users), written \in BOOLEAN :
          /\ file' = IF written THEN string ELSE file
          /\ fileFrom' = IF written THEN "drop" ELSE "stale"
    /\ before' = users
    /\ users' = EmptyMap
    /\ cmd' = Cmd("drop", 0, "", "", "")
    /\ reply' = Unit
    /\ spc' = "stopped"
    /\ UNCHANGED <<ncmds, loadRet>>
    /\ UNCHANGED <<userVars, textVars, evalVars, concVars>>

DropInner ==
    /\ spc = "running"
    /\ DropWrite

(* lib.rs:21-42  write_to_json: serde_json::to_string_pretty(&db) of the   *)
(* Users value, written to users.json                                      *)
WriteToJson ==
    /\ spc = "running"
    /\ file' \in UsersSerialize(users)
    /\ fileFrom' = "write_to_json"
    /\ before' = users
    /\ users' = EmptyMap
    /\ cmd' = Cmd("write_to_json", 0, "", "", "")
    /\ reply' = Unit
    /\ spc' = "stopped"
    /\ UNCHANGED <<ncmds, loadRet>>
    /\ UNCHANGED <<userVars, textVars, evalVars, concVars>>

Restart ==
    /\ spc = "stopped"
    /\ spc' = "boot"
    /\ UNCHANGED <<file, fileFrom, loadRet>>
    /\ UNCHANGED <<userVars, cmdVars, textVars, evalVars, concVars>>

NextSnap ==
    \/ LoadUsersFromFile
    \/ SnapCommand
    \/ DropInner
    \/ Restart

SpecSnap == InitSnap /\ [][NextSnap]_vars

(* SpecSer: the same life of the process, with users.json written from the *)
(* Users value by its Serialize implementation, as write_to_json does.     *)
NextSer ==
    \/ LoadUsersFromFile
    \/ SnapCommand
    \/ WriteToJson
    \/ Restart

SpecSer == InitSnap /\ [][NextSer]_vars

----------------------------------------------------------------------------
(* Properties of the snapshot, checked under SpecSnap.                     *)

(* C13: for every store the commands can build, Users::new of any text     *)
(* to_json can produce for it gives the same store back: the same user     *)
(* ids and, per user, the same namespaces, aliases and active namespace;   *)
(* and the store loaded from the file the drop wrote is the store that     *)
(* was dropped.                                                            *)
C13_RoundTrip ==
    /\ \A string \in to_json(users) : UsersNew(string) = Ok(users)
    /\ (cmd.op = "load" /\ fileFrom = "drop" /\ loadRet.ok) => users = before

C13_Witness ==
    /\ cmd.op = "load"
    /\ fileFrom = "drop"
    /\ loadRet.ok
    /\ Cardinality(DOMAIN before) > 1
    /\ \E id \in DOMAIN before :
          /\ namespace(before[id]) # "default"
          /\ Cardinality(available_namespaces(before[id])) > 1
          /\ \E n \in DOMAIN before[id].alias : before[id].alias[n] # EmptyMap
    /\ users = before

(* Checked under SpecSer.                                                  *)
(* C25: the text the Serialize implementation of Users produces is a       *)
(* mapping of user id to record, and Users::new and the Deserialize        *)
(* implementation of Users read the store that was written back from it.   *)
C25_SerializeRoundTrip ==
    (cmd.op = "load" /\ fileFrom = "write_to_json" /\ loadRet.kind # "Io") =>
        /\ \A k \in DOMAIN file.obj : IsIdKey(k)
        /\ loadRet.ok
        /\ loadRet.val = before
        /\ users = before
        /\ UsersDeserialize(file).ok
        /\ UsersDeserialize(file).val = before

(* C14: loading the snapshot never fails: when users.json is empty, is not *)
(* JSON, or is not a mapping of user id to record, load_users_from_file    *)
(* returns success with an empty store.  A failure to open or to read the  *)
(* file that the content does not cause is left aside.                     *)
IsNoSnapshot(c) ==
    \/ c.t \in {"empty", "malformed", "not utf8", "arr", "str"}
    \/ /\ c.t = "obj"
       /\ \E k \in DOMAIN c.obj : ~IsIdKey(k) \/ ~IsUserDoc(c.obj[k])

C14_LoadNeverFails ==
    (/\ cmd.op = "load"
     /\ ~(loadRet.kind = "Io" /\ loadRet.val \in {"open failed", "read failed"}))
    => /\ loadRet.ok
       /\ spc = "running"
       /\ IsNoSnapshot(file) => (loadRet.val = EmptyMap /\ users = EmptyMap)

----------------------------------------------------------------------------
(* The text helpers of src/utils/mod.rs.  A Rust string is a sequence of   *)
(* one-character strings; the operators scan it as the std functions do.   *)

MaxLen == 4

(* The grave accent (U+0060) cannot be written inside a TLA+ string; the   *)
(* character is named instead.                                             *)
Backtick == "GRAVE"

Alphabet == {",", " ", "1", "*", Backtick}

Strings(n) == UNION {[1..k -> Alphabet] : k \in 0..n}

IsWhitespace(c) == c = " "

RECURSIVE SplitFrom(_, _, _, _, _)
SplitFrom(s, sep, i, cur, acc) ==
    IF i > Len(s)
    THEN Append(acc, cur)
    ELSE IF s[i] = sep
         THEN SplitFrom(s, sep, i + 1, << >>, Append(acc, cur))
         ELSE SplitFrom(s, sep, i + 1, Append(cur, s[i]), acc)

split(s, sep) == SplitFrom(s, sep, 1, << >>, << >>)

RECURSIVE trim_start(_)
trim_start(s) ==
    IF s # << >> /\ IsWhitespace(Head(s)) THEN trim_start(Tail(s)) ELSE s

RECURSIVE trim_end(_)
trim_end(s) ==
    IF s # << >> /\ IsWhitespace(s[Len(s)])
    THEN trim_end(SubSeq(s, 1, Len(s) - 1))
    ELSE s

trim(s) == trim_end(trim_start(s))

IsNotEmpty(s) == s # << >>

normalize_dice_expr_StarOnly(s) ==
    LET Keep(c) == c # "*" IN SelectSeq(s, Keep)

RECURSIVE RemoveChars(_, _)
RemoveChars(s, pat) ==
    IF s = << >>
    THEN << >>
    ELSE IF Head(s) \in pat
         THEN RemoveChars(Tail(s), pat)
         ELSE <<Head(s)>> \o RemoveChars(Tail(s), pat)

normalize_dice_expr(s) == RemoveChars(s, {"*", Backtick})

split_dice_FilterFirst(expr) ==
    LET parts == SelectSeq(split(trim(expr), ","), IsNotEmpty)
    IN  [i \in 1..Len(parts) |-> trim(parts[i])]

split_dice(expr) ==
    LET parts == split(expr, ",")
        trimmed == [i \in 1..Len(parts) |-> trim(parts[i])]
    IN  SelectSeq(trimmed, IsNotEmpty)

(* SpecText: any string of at most MaxLen characters, then one call.       *)

InitText ==
    /\ user = UserNew
    /\ prev = UserNew
    /\ call = Call("new", "", "", "")
    /\ ret = Unit
    /\ users = EmptyMap
    /\ before = EmptyMap
    /\ cmd = NoCmd
    /\ reply = Unit
    /\ ncmds = 0
    /\ text \in Strings(MaxLen)
    /\ out = NoOut
    /\ lock = 0
    /\ epc = "idle"
    /\ evalExpr = << >>
    /\ avec = Ok(<< >>)
    /\ resolved_expr = << >>
    /\ ai = 0
    /\ die = << >>
    /\ ri = 0
    /\ embeds = << >>
    /\ eret = Unit
    /\ reexp = FALSE
    /\ spc = "idle"
    /\ file = NoFile
    /\ fileFrom = "initial"
    /\ loadRet = Unit
    /\ hpc = [h \in Handlers |-> "idle"]
    /\ guard = 0
    /\ serial = EmptyMap

SplitDice ==
    /\ out' = [fn |-> "split_dice", val |-> split_dice(text)]
    /\ UNCHANGED <<userVars, cmdVars, evalVars, snapVars, concVars, text>>

NormalizeDiceExpr ==
    /\ out' = [fn |-> "normalize_dice_expr", val |-> normalize_dice_expr(text)]
    /\ UNCHANGED <<userVars, cmdVars, evalVars, snapVars, concVars, text>>

NextText ==
    \/ SplitDice
    \/ NormalizeDiceExpr

SpecText == InitText /\ [][NextText]_vars

----------------------------------------------------------------------------
(* The eval command (src/commands/eval.rs:15-51), one invocation, a step   *)
(* per statement.  Its inputs are the expression, the Vec that aliases()   *)
(* returns for the author (the pairs of the active namespace in the        *)
(* iteration order of the HashMap, which is any order) and what the        *)
(* external roller and ctx.send answer.                                    *)
(*                                                                         *)
(* The accumulator of the fold is a sequence of [c |-> character,          *)
(* o |-> origin]: origin 0 is the text of the input, origin i the          *)
(* replacement text of the i-th pair applied.  reexp records that a        *)
(* replace matched text of an origin other than 0.                         *)

MaxExprLen == 3
MaxAliases == 2

ExprAlphabet == {"$", "a", "b", "1", ","}

Exprs == UNION {[1..k -> ExprAlphabet] : k \in 0..MaxExprLen}

EvalTokens == {<<"$", "a">>, <<"$", "b">>}

EvalValues == {<<"1">>, <<"$", "b">>, <<"1", ",", "a">>}

AliasVecs ==
    {v \in UNION {[1..k -> EvalTokens \X EvalValues] : k \in 0..MaxAliases} :
        \A i, j \in 1..Len(v) : i # j => v[i][1] # v[j][1]}

Tagged(s, o) == [i \in 1..Len(s) |-> [c |-> s[i], o |-> o]]

Untagged(s) == [i \in 1..Len(s) |-> s[i].c]

MatchAt(s, i, pat) ==
    /\ i + Len(pat) - 1 <= Len(s)
    /\ \A j \in 1..Len(pat) : s[i + j - 1].c = pat[j]

RECURSIVE ReplaceFrom(_, _, _, _, _)
ReplaceFrom(s, i, pat, to, o) ==
    IF i > Len(s)
    THEN << >>
    ELSE IF MatchAt(s, i, pat)
         THEN Tagged(to, o) \o ReplaceFrom(s, i + Len(pat), pat, to, o)
         ELSE <<s[i]>> \o ReplaceFrom(s, i + 1, pat, to, o)

replace(s, pat, to, o) == ReplaceFrom(s, 1, pat, to, o)

RECURSIVE MatchesIntroduced(_, _, _)
MatchesIntroduced(s, i, pat) ==
    IF i > Len(s)
    THEN FALSE
    ELSE IF MatchAt(s, i, pat)
         THEN \/ \E k \in i..(i + Len(pat) - 1) : s[k].o # 0
              \/ MatchesIntroduced(s, i + Len(pat), pat)
         ELSE MatchesIntroduced(s, i + 1, pat)

RollTexts(roll) == {roll, <<Backtick>> \o roll \o <<Backtick, "*">>}

Embed(title, body) == [title |-> title, body |-> body]

InitEval ==
    /\ user = UserNew
    /\ prev = UserNew
    /\ call = Call("new", "", "", "")
    /\ ret = Unit
    /\ users = EmptyMap
    /\ before = EmptyMap
    /\ cmd = NoCmd
    /\ reply = Unit
    /\ ncmds = 0
    /\ text = << >>
    /\ out = NoOut
    /\ lock = 0
    /\ epc = "start"
    /\ evalExpr \in Exprs
    /\ avec \in {Err("InvalidNamespace", "default")} \cup {Ok(v) : v \in AliasVecs}
    /\ resolved_expr = << >>
    /\ ai = 0
    /\ die = << >>
    /\ ri = 0
    /\ embeds = << >>
    /\ eret = Unit
    /\ reexp = FALSE
    /\ spc = "idle"
    /\ file = NoFile
    /\ fileFrom = "initial"
    /\ loadRet = Unit
    /\ hpc = [h \in Handlers |-> "idle"]
    /\ guard = 0
    /\ serial = EmptyMap

EvalFrame ==
    UNCHANGED <<userVars, cmdVars, textVars, snapVars, concVars, evalExpr, avec>>

(* eval.rs:22  let mut user = data.lock().await;                           *)
EvalLock ==
    /\ epc = "start"
    /\ lock = 0
    /\ lock' = 1
    /\ epc' = "aliases"
    /\ UNCHANGED <<resolved_expr, ai, die, ri, embeds, eret, reexp>>
    /\ EvalFrame

(* eval.rs:23  get_or_create(author).aliases()?                            *)
EvalAliases ==
    /\ epc = "aliases"
    /\ IF avec.ok
       THEN /\ epc' = "fold"
            /\ resolved_expr' = Tagged(evalExpr, 0)
            /\ ai' = 1
            /\ UNCHANGED <<lock, eret>>
       ELSE /\ epc' = "done"
            /\ eret' = avec
            /\ lock' = 0
            /\ UNCHANGED <<resolved_expr, ai>>
    /\ UNCHANGED <<die, ri, embeds, reexp>>
    /\ EvalFrame

(* eval.rs:25-27  one turn of fold(expr, |acc, (alias, value)|             *)
(* acc.replace(alias, value))                                              *)
EvalReplace ==
    /\ epc = "fold"
    /\ ai <= Len(avec.val)
    /\ resolved_expr' = replace(resolved_expr, avec.val[ai][1], avec.val[ai][2], ai)
    /\ reexp' = (reexp \/ MatchesIntroduced(resolved_expr, 1, avec.val[ai][1]))
    /\ ai' = ai + 1
    /\ UNCHANGED <<lock, epc, die, ri, embeds, eret>>
    /\ EvalFrame

(* eval.rs:29-30  let die = utils::split_dice(&resolved_expr);             *)
EvalSplit ==
    /\ epc = "fold"
    /\ ai > Len(avec.val)
    /\ die' = split_dice(Untagged(resolved_expr))
    /\ ri' = 1
    /\ epc' = "roll"
    /\ UNCHANGED <<lock, resolved_expr, ai, embeds, eret, reexp>>
    /\ EvalFrame

EvalRoll_SkipFailed ==
    /\ epc = "roll"
    /\ ri <= Len(die)
    /\ \/ \E t \in RollTexts(die[ri]) :
             /\ embeds' = Append(embeds, Embed(die[ri], normalize_dice_expr(t)))
             /\ ri' = ri + 1
             /\ UNCHANGED <<lock, epc, eret>>
       \/ /\ ri' = ri + 1
          /\ UNCHANGED <<lock, epc, eret, embeds>>
    /\ UNCHANGED <<resolved_expr, ai, die, reexp>>
    /\ EvalFrame

(* eval.rs:32-40  one turn of the loop: Roller::new(roll)?, roll()?,       *)
(* normalize_dice_expr, embeds.push                                        *)
EvalRoll ==
    /\ epc = "roll"
    /\ ri <= Len(die)
    /\ \/ \E t \in RollTexts(die[ri]) :
             /\ embeds' = Append(embeds, Embed(die[ri], normalize_dice_expr(t)))
             /\ ri' = ri + 1
             /\ UNCHANGED <<lock, epc, eret>>
       \/ /\ eret' = Err("Roll", die[ri])
          /\ epc' = "done"
          /\ lock' = 0
          /\ UNCHANGED <<embeds, ri>>
    /\ UNCHANGED <<resolved_expr, ai, die, reexp>>
    /\ EvalFrame

(* eval.rs:42-50  ctx.send(reply).await?; Ok(())  with the guard alive     *)
EvalSend ==
    /\ epc = "roll"
    /\ ri > Len(die)
    /\ \E sent \in BOOLEAN :
          eret' = IF sent THEN Ok(embeds) ELSE Err("Send", "")
    /\ epc' = "done"
    /\ lock' = 0
    /\ UNCHANGED <<resolved_expr, ai, die, ri, embeds, reexp>>
    /\ EvalFrame

NextEval ==
    \/ EvalLock
    \/ EvalAliases
    \/ EvalReplace
    \/ EvalSplit
    \/ EvalRoll
    \/ EvalSend

SpecEval == InitEval /\ [][NextEval]_vars

----------------------------------------------------------------------------
(* Properties of eval, checked under SpecEval.                             *)

(* C15: the substitution is a single pass: text that one alias's           *)
(* replacement put into the expression is never replaced by another alias. *)
C15_NoReexpansion == ~reexp

(* C18 as stated: a failure of the roller on one sub-expression does not   *)
(* abort the others; when eval returns, every sub-expression has been      *)
(* evaluated and the results of those that succeeded are in the reply.     *)
C18_FailureDoesNotAbort ==
    (epc = "done" /\ avec.ok /\ eret.kind # "Send") =>
        /\ ri >= Len(die)
        /\ embeds # << >> => eret = Ok(embeds)

(* C18: a failure of the roller on one sub-expression is reported for that *)
(* sub-expression and ends eval at once: the sub-expressions before it     *)
(* were evaluated, those after it are not, and no result is sent; when no  *)
(* sub-expression fails, the reply holds one result per sub-expression, in *)
(* order.                                                                  *)
C18_FailureAborts ==
    /\ (epc = "done" /\ eret.kind = "Roll") =>
          /\ ri \in 1..Len(die)
          /\ eret = Err("Roll", die[ri])
          /\ Len(embeds) = ri - 1
    /\ (epc = "done" /\ eret.kind = "Ok") =>
          /\ eret.val = embeds
          /\ Len(embeds) = Len(die)
          /\ \A i \in 1..Len(die) : embeds[i].title = die[i]

C18_Witness ==
    /\ epc = "done"
    /\ eret.kind = "Roll"
    /\ ri = 2
    /\ Len(embeds) = 1

----------------------------------------------------------------------------
(* Properties of the text helpers, checked under SpecText.                 *)

(* C16: split_dice returns the comma-delimited segments of its input, each *)
(* trimmed of leading and trailing whitespace, the segments that are empty *)
(* after trimming dropped, in input order; every returned segment is       *)
(* non-empty and an input of only commas and whitespace gives the empty    *)
(* sequence.                                                               *)
C16_SplitDice ==
    out.fn = "split_dice" =>
        LET commas == {i \in 1..Len(text) : text[i] = ","}
            \* segment k (0-based) lies strictly between comma k and comma k+1
            Lo(k) == IF k = 0 THEN 0
                     ELSE CHOOSE i \in commas :
                              Cardinality({j \in commas : j < i}) = k - 1
            Hi(k) == IF k = Cardinality(commas) THEN Len(text) + 1
                     ELSE CHOOSE i \in commas :
                              Cardinality({j \in commas : j < i}) = k
            Ink(k) == {i \in (Lo(k) + 1)..(Hi(k) - 1) : text[i] # " "}
            First(k) == CHOOSE i \in Ink(k) : \A j \in Ink(k) : i <= j
            Last(k) == CHOOSE i \in Ink(k) : \A j \in Ink(k) : j <= i
            kept == {k \in 0..Cardinality(commas) : Ink(k) # {}}
            Nth(n) == CHOOSE k \in kept :
                          Cardinality({j \in kept : j < k}) = n - 1
        IN  /\ Len(out.val) = Cardinality(kept)
            /\ \A n \in 1..Len(out.val) :
                  /\ out.val[n] = SubSeq(text, First(Nth(n)), Last(Nth(n)))
                  /\ out.val[n] # << >>
            /\ (\A i \in 1..Len(text) : text[i] \in {",", " "})
                  => out.val = << >>

C16_Witness ==
    /\ out.fn = "split_dice"
    /\ text = <<",", " ", "1", " ">>
    /\ out.val = << <<"1">> >>

(* C17: normalize_dice_expr returns its input with every '*' and every     *)
(* grave accent removed and the other characters in their order; applying  *)
(* it to its own result changes nothing.                                   *)
C17_NormalizeDiceExpr ==
    out.fn = "normalize_dice_expr" =>
        LET keep == {i \in 1..Len(text) : text[i] \notin {"*", Backtick}}
            Nth(n) == CHOOSE i \in keep :
                          Cardinality({j \in keep : j < i}) = n - 1
        IN  /\ Len(out.val) = Cardinality(keep)
            /\ \A n \in 1..Len(out.val) : out.val[n] = text[Nth(n)]
            /\ normalize_dice_expr(out.val) = out.val

C17_Witness ==
    /\ out.fn = "normalize_dice_expr"
    /\ text = <<Backtick, "1", Backtick, "*">>
    /\ out.val = <<"1">>

----------------------------------------------------------------------------
(* Properties of the command layer, checked under SpecCmd.                 *)

(* C2: after any sequence of commands by any users every record in the     *)
(* store still has the namespace "default"; a delete request naming        *)
(* "default" is rejected with an error and leaves the author's record as   *)
(* get_or_create returned it.                                              *)
C2_DefaultProtected ==
    /\ \A id \in DOMAIN users :
          /\ "default" \in namespaces(users[id])
          /\ "default" \in DOMAIN users[id].alias
    /\ (cmd.op = "namespace_delete" /\ cmd.namespace = "default") =>
          /\ reply = Err("Simple", "cannot drop default namespace")
          /\ users = get_or_create(before, cmd.author)

C2_Witness ==
    /\ cmd.op = "namespace_delete"
    /\ cmd.namespace = "default"
    /\ cmd.author \in DOMAIN before
    /\ namespace(before[cmd.author]) # "default"
    /\ ~reply.ok

(* C12: every command leaves its author with a record and every other     *)
(* user's record as it was; a command that only looks the author up        *)
(* (namespace_dump) returns the existing record unchanged, or a fresh one  *)
(* (current namespace "default", only "default", no aliases) for a new     *)
(* author, and never a store error.                                        *)
C12_GetOrCreate ==
    cmd.op # "none" =>
        /\ cmd.author \in DOMAIN users
        /\ \A id \in UserIds \ {cmd.author} :
              /\ id \in DOMAIN users <=> id \in DOMAIN before
              /\ id \in DOMAIN before => users[id] = before[id]
        /\ cmd.op = "namespace_dump" =>
              /\ reply.kind \in {"Ok", "Send"}
              /\ users[cmd.author] =
                    IF cmd.author \in DOMAIN before
                    THEN before[cmd.author]
                    ELSE [namespace |-> "default",
                          available_namespaces |-> {"default"},
                          alias |-> [n \in {"default"} |-> EmptyMap]]

C12_Witness ==
    /\ cmd.op = "namespace_dump"
    /\ cmd.author \notin DOMAIN before
    /\ \E id \in DOMAIN before : before[id] # UserNew
    /\ \A id \in DOMAIN before : users[id] = before[id]

(* C22: namespace create with a name the author already has is rejected    *)
(* with an error and add_namespace is not called: the aliases of that      *)
(* namespace, the namespace set and the current namespace are unchanged.   *)
C22_CreateExistingRejected ==
    (/\ cmd.op = "namespace_new"
     /\ cmd.namespace \in namespaces(get_or_create(before, cmd.author)[cmd.author]))
    => /\ reply = Err("Simple", "cannot rewrite over an existing namespace")
       /\ users = get_or_create(before, cmd.author)

C22_Witness ==
    /\ cmd.op = "namespace_new"
    /\ cmd.author \in DOMAIN before
    /\ cmd.namespace \in namespaces(before[cmd.author])
    /\ cmd.namespace \in DOMAIN before[cmd.author].alias
    /\ before[cmd.author].alias[cmd.namespace] # EmptyMap
    /\ ~reply.ok
    /\ users = before

(* C23: namespace switch with a name the author does not have fails with   *)
(* NamespaceNotFound(name) and leaves the current namespace unchanged;     *)
(* with a name the author has it makes that name the current namespace.    *)
C23_Switch ==
    cmd.op = "namespace_switch" =>
        LET u0 == get_or_create(before, cmd.author)[cmd.author]
        IN  IF cmd.namespace \in namespaces(u0)
            THEN /\ reply.kind # "NamespaceNotFound"
                 /\ namespace(users[cmd.author]) = cmd.namespace
            ELSE /\ reply = Err("NamespaceNotFound", cmd.namespace)
                 /\ namespace(users[cmd.author]) = namespace(u0)
                 /\ users = get_or_create(before, cmd.author)

C23_Witness ==
    /\ cmd.op = "namespace_switch"
    /\ cmd.author \in DOMAIN before
    /\ cmd.namespace \notin namespaces(before[cmd.author])
    /\ before[cmd.author] # UserNew
    /\ reply = Err("NamespaceNotFound", cmd.namespace)
    /\ namespace(users[cmd.author]) = namespace(before[cmd.author])

----------------------------------------------------------------------------
(* Properties of the User record, checked under Spec.                      *)

(* C1: after any sequence of User operations the current namespace exists  *)
(* in the record: it is in available_namespaces and a key of the alias     *)
(* table.                                                                  *)
C1_CurrentNamespaceExists ==
    /\ namespace(user) \in available_namespaces(user)
    /\ namespace(user) \in DOMAIN user.alias

(* C3: add_namespace(name) on a name that already exists has no effect on  *)
(* the record; the aliases stored under name are kept.                     *)
C3_AddNamespaceIdempotent ==
    (call.op = "add_namespace" /\ call.name \in available_namespaces(prev))
        => user = prev

(* C4: a freshly constructed record (User::new, User::default) has current *)
(* namespace "default", lists "default", and maps "default" to an empty    *)
(* alias map.                                                              *)
C4_FreshRecord ==
    call.op \in {"new", "default"} =>
        /\ namespace(user) = "default"
        /\ "default" \in available_namespaces(user)
        /\ "default" \in DOMAIN user.alias
        /\ user.alias["default"] = EmptyMap

C4_Witness ==
    /\ call.op \in {"new", "default"}
    /\ prev # user

(* C5: add_namespace(name) immediately followed by namespace_mut(name)     *)
(* leaves current namespace = name and name among the namespaces.          *)
C5_AddThenSwitch ==
    [][(call.op = "add_namespace" /\ call'.op = "namespace_mut"
            /\ call'.name = call.name)
        => (user'.namespace = call.name
            /\ call.name \in user'.available_namespaces)]_vars

C5_Witness ==
    /\ call.op = "namespace_mut"
    /\ call.name # "default"
    /\ namespace(prev) # call.name
    /\ call.name \in DOMAIN prev.alias
    /\ prev.alias[call.name] = EmptyMap
    /\ namespace(user) = call.name

(* C6: in a record whose active namespace exists, after alias_mut(k, v)    *)
(* the lookup alias(k) returns v, also when k was already bound to another *)
(* value, and k occurs exactly once in aliases().                          *)
C6_SetThenGet ==
    (call.op = "alias_mut" /\ namespace(prev) \in DOMAIN prev.alias) =>
        /\ ret = Ok(Unit)
        /\ alias(user, call.k).ret = Ok(call.v)
        /\ aliases(user).ret.ok
        /\ Cardinality({p \in aliases(user).ret.val : p[1] = call.k}) = 1

C6_Witness ==
    /\ call.op = "alias_mut"
    /\ namespace(prev) \in DOMAIN prev.alias
    /\ call.k \in DOMAIN prev.alias[namespace(prev)]
    /\ prev.alias[namespace(prev)][call.k] # call.v
    /\ alias(user, call.k).ret = Ok(call.v)

(* C7: in a record whose active namespace exists, remove_alias(k) fails    *)
(* with AliasNotFound(k) when k is absent; when k is present it returns    *)
(* the value stored before the call and alias(k) then fails with           *)
(* AliasNotFound(k).                                                       *)
C7_RemoveAlias ==
    (call.op = "remove_alias" /\ namespace(prev) \in DOMAIN prev.alias) =>
        IF call.k \in DOMAIN prev.alias[namespace(prev)]
        THEN /\ ret = Ok(prev.alias[namespace(prev)][call.k])
             /\ alias(user, call.k).ret = Err("AliasNotFound", call.k)
        ELSE ret = Err("AliasNotFound", call.k)

C7_Witness ==
    /\ call.op = "remove_alias"
    /\ namespace(prev) \in DOMAIN prev.alias
    /\ call.k \in DOMAIN prev.alias[namespace(prev)]
    /\ ret.ok

(* C8: remove_namespace(name) on an existing namespace removes it, returns *)
(* name with the alias map the namespace held before the call, and makes   *)
(* "default" current if name was current, else keeps the current one.      *)
C8_RemoveNamespace ==
    (call.op = "remove_namespace"
        /\ call.name \in available_namespaces(prev)
        /\ call.name \in DOMAIN prev.alias) =>
        /\ call.name \notin available_namespaces(user)
        /\ call.name \notin DOMAIN user.alias
        /\ ret = Ok(<<call.name, prev.alias[call.name]>>)
        /\ namespace(user) = IF namespace(prev) = call.name
                             THEN "default"
                             ELSE namespace(prev)

C8_Witness ==
    /\ call.op = "remove_namespace"
    /\ call.name # "default"
    /\ call.name \in DOMAIN prev.alias
    /\ namespace(prev) = call.name
    /\ prev.alias[call.name] # EmptyMap
    /\ ret.ok
    /\ namespace(user) = "default"

(* C9: namespace_mut(name) with a name that is not an existing namespace   *)
(* changes nothing in the record and raises no error.                      *)
C9_SwitchUnknownNoop ==
    (call.op = "namespace_mut" /\ call.name \notin available_namespaces(prev))
        => (user = prev /\ ret = Unit)

C9_Witness ==
    /\ call.op = "namespace_mut"
    /\ call.name \notin available_namespaces(prev)
    /\ call.name \notin DOMAIN prev.alias
    /\ namespace(prev) # call.name

(* C10: remove_namespace(name) with a name that does not exist fails with  *)
(* NamespaceNotFound(name) and changes nothing in the record.              *)
C10_RemoveUnknownNamespace ==
    (call.op = "remove_namespace" /\ call.name \notin available_namespaces(prev))
        => (ret = Err("NamespaceNotFound", call.name) /\ user = prev)

C10_Witness ==
    /\ call.op = "remove_namespace"
    /\ call.name \notin available_namespaces(prev)
    /\ namespace(prev) \in DOMAIN prev.alias
    /\ prev.alias[namespace(prev)] # EmptyMap
    /\ ~ret.ok

(* C11: when the active namespace has no alias map, alias_mut, alias and   *)
(* aliases fail with InvalidNamespace(active name), remove_alias fails     *)
(* with NamespaceNotFound(active name), and none of them changes the       *)
(* record.                                                                 *)
C11_MissingActiveNamespace ==
    (namespace(prev) \notin DOMAIN prev.alias) =>
        /\ call.op \in {"alias_mut", "alias", "aliases"} =>
              (ret = Err("InvalidNamespace", namespace(prev)) /\ user = prev)
        /\ call.op = "remove_alias" =>
              (ret = Err("NamespaceNotFound", namespace(prev)) /\ user = prev)

C11_Witness ==
    /\ call.op = "remove_alias"
    /\ namespace(prev) \notin DOMAIN prev.alias
    /\ ~ret.ok
    /\ ret.kind = "NamespaceNotFound"

(* C24: alias_mut and remove_alias change only the alias map of the active *)
(* namespace: the maps of the other namespaces, the namespace set and the  *)
(* current namespace stay as they were; alias and aliases return what the  *)
(* map of the active namespace holds and nothing of another namespace.     *)
C24_NamespacesIsolated ==
    /\ call.op \in {"alias_mut", "remove_alias"} =>
          /\ DOMAIN user.alias = DOMAIN prev.alias
          /\ \A n \in DOMAIN prev.alias \ {prev.namespace} :
                user.alias[n] = prev.alias[n]
          /\ available_namespaces(user) = available_namespaces(prev)
          /\ namespace(user) = namespace(prev)
    /\ (call.op = "alias" /\ ret.ok) =>
          /\ namespace(prev) \in DOMAIN prev.alias
          /\ call.k \in DOMAIN prev.alias[namespace(prev)]
          /\ ret.val = prev.alias[namespace(prev)][call.k]
    /\ (call.op = "aliases" /\ ret.ok) =>
          /\ namespace(prev) \in DOMAIN prev.alias
          /\ ret.val = {<<k, prev.alias[namespace(prev)][k]>> :
                          k \in DOMAIN prev.alias[namespace(prev)]}

C24_Witness ==
    /\ call.op = "alias_mut"
    /\ ret.ok
    /\ \E n \in DOMAIN user.alias \ {namespace(user)} :
          /\ call.k \in DOMAIN user.alias[n]
          /\ user.alias[n][call.k] # call.v
          /\ user.alias[n] = prev.alias[n]

(* C26: a method of User that returns an error (alias, aliases, alias_mut, *)
(* remove_alias, remove_namespace) leaves the record as it was before the  *)
(* call.                                                                   *)
C26_ErrorLeavesRecord ==
    (/\ call.op \in {"alias", "aliases", "alias_mut", "remove_alias",
                      "remove_namespace"}
     /\ ~ret.ok)
    => user = prev

C26_Witness ==
    /\ call.op = "alias_mut"
    /\ ~ret.ok
    /\ ret.kind = "InvalidNamespace"
    /\ namespace(prev) \notin DOMAIN prev.alias
    /\ user = prev

(* C28: available_namespaces is exactly the set of keys of the alias       *)
(* table: a namespace is listed if and only if it has an alias map.        *)
C28_ListedIffMapped ==
    available_namespaces(user) = DOMAIN user.alias

C28_Witness ==
    /\ call.op = "remove_namespace"
    /\ ret.ok
    /\ call.name \in available_namespaces(prev)
    /\ call.name \notin available_namespaces(user)
    /\ call.name \notin DOMAIN user.alias
    /\ Cardinality(available_namespaces(user)) >= 1

----------------------------------------------------------------------------
(* Concurrent command handlers (src/commands/alias.rs, src/models/mod.rs). *)
(* Data is an Arc<tokio::sync::Mutex<Inner>>.  Every handler starts with   *)
(* ctx.data().lock().await and keeps the guard in a local that lives to    *)
(* the end of the function.  hpc[h] is where handler h stands:             *)
(*   "idle"     not invoked                                                *)
(*   "waiting"  suspended in lock().await                                  *)
(*   "locked"   holds the guard, before get_or_create                      *)
(*   "body"     after get_or_create, before the checks and the mutation    *)
(*   "sending"  suspended in ctx.send(..).await                            *)
(* guard is the handler that holds the MutexGuard, 0 when the mutex is     *)
(* free.  cmd is the command of the handler that holds the guard; its      *)
(* arguments are drawn when the handler first uses them.  serial is the    *)
(* store obtained by running the commands one after another in the order   *)
(* in which their handlers acquired the mutex.                             *)

(* The handler of command c run on store us                                *)
Exec(c, us) ==
    CASE c.op = "delete_alias" -> delete_alias(us, c.author, c.var, TRUE)
      [] c.op = "create_alias" -> create_alias(us, c.author, c.var, c.be, TRUE)
      [] c.op = "namespace_switch" -> namespace_switch(us, c.author, c.namespace, TRUE)
      [] c.op = "namespace_new" -> namespace_new(us, c.author, c.namespace, TRUE)
      [] c.op = "namespace_delete" -> namespace_delete(us, c.author, c.namespace, TRUE)

ConcCmds ==
    {Cmd("create_alias", id, "", var, be) : id \in UserIds, var \in Vars, be \in Values}
    \cup {Cmd(op, id, ns, "", "") :
            op \in {"namespace_switch", "namespace_new", "namespace_delete"},
            id \in UserIds, ns \in Names}

(* tokio::sync::Mutex::lock completes only while no guard is alive         *)
MutexFree_Always(g) == TRUE

MutexFree(g) == g = 0

InitConc ==
    /\ user = UserNew
    /\ prev = UserNew
    /\ call = Call("new", "", "", "")
    /\ ret = Unit
    /\ users = EmptyMap
    /\ before = EmptyMap
    /\ cmd = NoCmd
    /\ reply = Ok(Unit)
    /\ ncmds = 0
    /\ text = << >>
    /\ out = NoOut
    /\ lock = 0
    /\ epc = "idle"
    /\ evalExpr = << >>
    /\ avec = Ok(<< >>)
    /\ resolved_expr = << >>
    /\ ai = 0
    /\ die = << >>
    /\ ri = 0
    /\ embeds = << >>
    /\ eret = Unit
    /\ reexp = FALSE
    /\ spc = "idle"
    /\ file = NoFile
    /\ fileFrom = "initial"
    /\ loadRet = Unit
    /\ hpc = [h \in Handlers |-> "idle"]
    /\ guard = 0
    /\ serial = EmptyMap

ConcFrame == UNCHANGED <<userVars, textVars, evalVars, snapVars, before>>

(* poise spawns the handler of an incoming command; it runs up to          *)
(* lock().await                                                            *)
Invoke(h) ==
    /\ hpc[h] = "idle"
    /\ hpc' = [hpc EXCEPT ![h] = "waiting"]
    /\ UNCHANGED <<users, cmd, reply, ncmds, guard, serial>>
    /\ ConcFrame

(* alias.rs:24, 45, 123, 144, 184  let mut user = ctx.data().lock().await  *)
AcquireOf(h, cmds) ==
    /\ hpc[h] = "waiting"
    /\ ncmds < MaxConcCmds
    /\ MutexFree(guard)
    /\ \E c \in cmds :
          /\ cmd' = c
          /\ serial' = Exec(c, serial).users
    /\ guard' = h
    /\ hpc' = [hpc EXCEPT ![h] = "locked"]
    /\ ncmds' = ncmds + 1
    /\ reply' = Ok(Unit)
    /\ UNCHANGED users
    /\ ConcFrame

Acquire(h) == AcquireOf(h, ConcCmds)

(* alias.rs:25, 46, 124, 145, 185  user.get_or_create(ctx.author().id)     *)
GetOrCreate(h) ==
    /\ hpc[h] = "locked"
    /\ users' = get_or_create(users, cmd.author)
    /\ hpc' = [hpc EXCEPT ![h] = "body"]
    /\ UNCHANGED <<cmd, reply, ncmds, guard, serial>>
    /\ ConcFrame

Body_KeepGuard(h) ==
    /\ hpc[h] = "body"
    /\ LET r == Exec(cmd, users)
       IN  /\ users' = r.users
           /\ reply' = r.ret
           /\ hpc' = [hpc EXCEPT ![h] = IF r.ret.ok THEN "sending" ELSE "idle"]
           /\ UNCHANGED guard
    /\ UNCHANGED <<cmd, ncmds, serial>>
    /\ ConcFrame

(* The checks and the mutation of the handler.  An early return of Err     *)
(* drops the guard; otherwise the handler goes on to ctx.send(..).await    *)
(* with the guard alive.                                                   *)
Body(h) ==
    /\ hpc[h] = "body"
    /\ LET r == Exec(cmd, users)
       IN  /\ users' = r.users
           /\ reply' = r.ret
           /\ IF r.ret.ok
              THEN /\ hpc' = [hpc EXCEPT ![h] = "sending"]
                   /\ UNCHANGED guard
              ELSE /\ hpc' = [hpc EXCEPT ![h] = "idle"]
                   /\ guard' = IF guard = h THEN 0 ELSE guard
    /\ UNCHANGED <<cmd, ncmds, serial>>
    /\ ConcFrame

(* alias.rs:36-39, 61-63, 136-138, 155-157, 202-204  the send completes,   *)
(* with or without an error, the handler returns and the guard is dropped  *)
SendDone(h) ==
    /\ hpc[h] = "sending"
    /\ \E sent \in BOOLEAN : reply' = Send(sent, reply.val)
    /\ hpc' = [hpc EXCEPT ![h] = "idle"]
    /\ guard' = IF guard = h THEN 0 ELSE guard
    /\ UNCHANGED <<users, cmd, ncmds, serial>>
    /\ ConcFrame

NextConc ==
    \E h \in Handlers :
        \/ Invoke(h)
        \/ Acquire(h)
        \/ GetOrCreate(h)
        \/ Body(h)
        \/ SendDone(h)

SpecConc == InitConc /\ [][NextConc]_vars

(* SpecLive: handlers of delete_alias and namespace_delete under fair      *)
(* scheduling, on a store loaded with one user's record.  The runtime      *)
(* keeps polling a handler that can run, a send that was started           *)
(* completes, and the mutex hands the lock to a waiter that asks for it    *)
(* again and again (tokio's Mutex is fair).                                *)
LiveCmds ==
    {Cmd("delete_alias", 1, "", VarPool[1], ""),
     Cmd("namespace_delete", 1, "default", "", ""),
     Cmd("namespace_delete", 1, NsPool[1], "", "")}

InitLive ==
    /\ user = UserNew
    /\ prev = UserNew
    /\ call = Call("new", "", "", "")
    /\ ret = Unit
    /\ users = [id \in {1} |-> SampleUser]
    /\ before = EmptyMap
    /\ cmd = NoCmd
    /\ reply = Ok(Unit)
    /\ ncmds = 0
    /\ text = << >>
    /\ out = NoOut
    /\ lock = 0
    /\ epc = "idle"
    /\ evalExpr = << >>
    /\ avec = Ok(<< >>)
    /\ resolved_expr = << >>
    /\ ai = 0
    /\ die = << >>
    /\ ri = 0
    /\ embeds = << >>
    /\ eret = Unit
    /\ reexp = FALSE
    /\ spc = "idle"
    /\ file = NoFile
    /\ fileFrom = "initial"
    /\ loadRet = Unit
    /\ hpc = [h \in Handlers |-> "idle"]
    /\ guard = 0
    /\ serial = [id \in {1} |-> SampleUser]

NextLive ==
    \E h \in Handlers :
        \/ Invoke(h)
        \/ AcquireOf(h, LiveCmds)
        \/ GetOrCreate(h)
        \/ Body(h)
        \/ SendDone(h)

Fairness ==
    \A h \in Handlers :
        /\ WF_vars(GetOrCreate(h))
        /\ WF_vars(Body(h))
        /\ WF_vars(SendDone(h))
        /\ SF_vars(AcquireOf(h, LiveCmds))

SpecLive == InitLive /\ [][NextLive]_vars /\ Fairness

(* SpecShut: the handlers and the shutdown of the process.  spc stays      *)
(* "idle" while the bot serves commands.  Ctrl-C makes                     *)
(* shard_manager.shutdown_all() return client.start(), setup_client and    *)
(* main return, and the runtime is dropped: a handler that is being polled *)
(* runs to its next await, a suspended handler is dropped where it is      *)
(* suspended, and with it its guard and its reference to Data.  When the   *)
(* last reference to the Arc<Mutex<Inner>> is gone, Inner is dropped and   *)
(* its Drop writes users.json.                                             *)
ShutCmds ==
    LiveCmds \cup {Cmd("create_alias", 2, "", VarPool[1], ValPool[1])}

Serve ==
    /\ spc = "idle"
    /\ \E h \in Handlers : Invoke(h)

Progress ==
    /\ spc \in {"idle", "shutdown"}
    /\ \E h \in Handlers :
          \/ AcquireOf(h, ShutCmds)
          \/ GetOrCreate(h)
          \/ Body(h)
          \/ SendDone(h)

(* main.rs:107-116  ctrl_c, shutdown_all, client.start() returns           *)
Shutdown ==
    /\ spc = "idle"
    /\ spc' = "shutdown"
    /\ UNCHANGED <<file, fileFrom, loadRet>>
    /\ UNCHANGED <<userVars, cmdVars, textVars, evalVars, concVars>>

(* The runtime drops a task at the await where it is suspended             *)
CancelTask ==
    /\ spc = "shutdown"
    /\ \E h \in Handlers :
          /\ hpc[h] \in {"waiting", "sending"}
          /\ hpc' = [hpc EXCEPT ![h] = "idle"]
          /\ guard' = IF guard = h THEN 0 ELSE guard
    /\ UNCHANGED <<users, cmd, reply, ncmds, serial>>
    /\ ConcFrame

(* Arc: the value is dropped when no handler refers to Data any more       *)
LastReference_Always(p) == TRUE

LastReference(p) == \A h \in Handlers : p[h] = "idle"

DropLast ==
    /\ spc = "shutdown"
    /\ LastReference(hpc)
    /\ DropWrite

NextShut ==
    \/ Serve
    \/ Progress
    \/ Shutdown
    \/ CancelTask
    \/ DropLast

SpecShut == InitLive /\ [][NextShut]_vars

----------------------------------------------------------------------------
(* Properties of the concurrent handlers, checked under SpecConc.          *)

InCriticalSection(h) == hpc[h] \in {"locked", "body", "sending"}

(* C19: at most one handler at a time is inside a store critical section,  *)
(* and once the handler holding the mutex has done its get_or_create, its  *)
(* checks and its mutation, the store is the result of running the         *)
(* commands one after another in the order of lock acquisition.            *)
C19_MutualExclusionSerial ==
    /\ \A h1, h2 \in Handlers :
          (InCriticalSection(h1) /\ InCriticalSection(h2)) => h1 = h2
    /\ \A h \in Handlers : InCriticalSection(h) <=> guard = h
    /\ (guard = 0 \/ hpc[guard] = "sending") => users = serial

C19_Witness ==
    /\ ncmds >= 2
    /\ \E h1, h2 \in Handlers :
          /\ hpc[h1] = "sending"
          /\ guard = h1
          /\ hpc[h2] = "waiting"
    /\ users = serial
    /\ \E id \in DOMAIN users :
          /\ id = cmd.author
          /\ Cardinality(available_namespaces(users[id])) > 1
          /\ namespace(users[id]) = cmd.namespace
          /\ cmd.op = "namespace_switch"

(* C20: a handler that holds the store lock is never suspended: it is not  *)
(* awaiting the send of its reply while the guard is alive.                *)
C20_NoSuspendHoldingLock ==
    \A h \in Handlers : guard = h => hpc[h] # "sending"

(* Checked under SpecLive.                                                 *)
(* C27: a handler that holds the store lock releases it on every path (a   *)
(* store error returned early, a reply sent, a failed send), and a handler *)
(* waiting for the lock acquires it, as long as the model serves further   *)
(* commands (ncmds < MaxConcCmds).                                         *)
C27_LockReleased ==
    \A h \in Handlers :
        /\ (guard = h) ~> (guard = 0)
        /\ (hpc[h] = "waiting") ~> (InCriticalSection(h) \/ ncmds = MaxConcCmds)

C27_Witness ==
    /\ ncmds >= 2
    /\ guard = 0
    /\ ~reply.ok
    /\ reply.kind # "Send"
    /\ \E h \in Handlers : hpc[h] = "waiting"

(* Checked under SpecShut.                                                 *)
(* C21: the snapshot is written at shutdown, once, with no handler holding *)
(* the store lock or part-way through an operation at the moment of the    *)
(* write; what is written is the store that results from the operations    *)
(* completed before, in lock-acquisition order; the write takes no lock,   *)
(* so it never waits for one.                                              *)
C21_SnapshotAtShutdown ==
    /\ fileFrom # "initial" => spc = "stopped"
    /\ spc = "stopped" =>
          /\ guard = 0
          /\ \A h \in Handlers : ~InCriticalSection(h)
          /\ before = serial
          /\ fileFrom = "drop" => file \in to_json(before)

C21_Witness ==
    /\ spc = "stopped"
    /\ fileFrom = "drop"
    /\ ncmds >= 2
    /\ file \in to_json(before)
    /\ before = serial
    /\ before # [id \in {1} |-> SampleUser]
    /\ reply = Unit

----------------------------------------------------------------------------
(* The time pattern of walzecore/src/tz/mod.rs.  TIME_REGEX is             *)
(*   ^(H?)h(M?)m(S?)s$                                                     *)
(* with H = [1-9] | 0[0-9] | 1[0-9] | 2[0-3] and                           *)
(* M = S = [0-9] | 0[0-9] | 1[0-9] | 2[0-9] | 3[0-9] | 4[0-9] | 5[0-9].    *)
(* Each group is optional ({0,1}).                                         *)

MaxDigits == 2

DigitSeq == <<"0", "1", "2", "3", "4", "5", "6", "7", "8", "9">>

Digits == {DigitSeq[i] : i \in 1..10}

DigitVal(c) == (CHOOSE i \in 1..10 : DigitSeq[i] = c) - 1

DigitStrings(n) == UNION {[1..k -> Digits] : k \in 0..n}

InRange(c, lo, hi) == c \in Digits /\ DigitVal(c) >= lo /\ DigitVal(c) <= hi

(* ([1-9]|0[0-9]|1[0-9]|2[0-3]){0,1}                                       *)
HourGroup(d) ==
    \/ d = << >>
    \/ Len(d) = 1 /\ InRange(d[1], 1, 9)
    \/ Len(d) = 2 /\ d[1] = "0" /\ InRange(d[2], 0, 9)
    \/ Len(d) = 2 /\ d[1] = "1" /\ InRange(d[2], 0, 9)
    \/ Len(d) = 2 /\ d[1] = "2" /\ InRange(d[2], 0, 3)

(* ([0-9]|0[0-9]|1[0-9]|2[0-9]|3[0-9]|4[0-9]|5[0-9]){0,1}                  *)
MinSecGroup(d) ==
    \/ d = << >>
    \/ Len(d) = 1 /\ InRange(d[1], 0, 9)
    \/ Len(d) = 2 /\ InRange(d[1], 0, 5) /\ InRange(d[2], 0, 9)

(* The ways the whole text matches: the places of the h and of the m       *)
Matches(s) ==
    {p \in (1..Len(s)) \X (1..Len(s)) :
        /\ p[1] < p[2]
        /\ p[2] < Len(s)
        /\ s[p[1]] = "h"
        /\ s[p[2]] = "m"
        /\ s[Len(s)] = "s"
        /\ HourGroup(SubSeq(s, 1, p[1] - 1))
        /\ MinSecGroup(SubSeq(s, p[1] + 1, p[2] - 1))
        /\ MinSecGroup(SubSeq(s, p[2] + 1, Len(s) - 1))}

(* TIME_REGEX.captures(hms): groups 1, 3 and 5, or no match                *)
captures(s) ==
    IF Matches(s) = {}
    THEN [fn |-> "no match", val |-> << >>]
    ELSE LET p == CHOOSE q \in Matches(s) : TRUE
         IN  [fn |-> "captures",
              val |-> <<SubSeq(s, 1, p[1] - 1),
                        SubSeq(s, p[1] + 1, p[2] - 1),
                        SubSeq(s, p[2] + 1, Len(s) - 1)>>]

RECURSIVE ParseU32(_)
ParseU32(d) ==
    IF d = << >> THEN 0
    ELSE 10 * ParseU32(SubSeq(d, 1, Len(d) - 1)) + DigitVal(d[Len(d)])

(* tz/mod.rs:19-23  an empty group reads as "0"                            *)
extract_group(c, idx) == IF c[idx] = << >> THEN <<"0">> ELSE c[idx]

(* tz/mod.rs:25-31                                                         *)
hms(c) ==
    <<ParseU32(extract_group(c, 1)),
      ParseU32(extract_group(c, 2)),
      ParseU32(extract_group(c, 3))>>

SecondTexts ==
    {<< >>, <<"0">>, <<"9">>, <<"0", "0">>, <<"5", "9">>, <<"6", "0">>}

TimeTexts ==
    {H \o <<"h">> \o M \o <<"m">> \o S \o <<"s">> :
        H \in DigitStrings(MaxDigits), M \in DigitStrings(MaxDigits),
        S \in SecondTexts}

InitTime ==
    /\ user = UserNew
    /\ prev = UserNew
    /\ call = Call("new", "", "", "")
    /\ ret = Unit
    /\ users = EmptyMap
    /\ before = EmptyMap
    /\ cmd = NoCmd
    /\ reply = Unit
    /\ ncmds = 0
    /\ text \in TimeTexts
    /\ out = NoOut
    /\ lock = 0
    /\ epc = "idle"
    /\ evalExpr = << >>
    /\ avec = Ok(<< >>)
    /\ resolved_expr = << >>
    /\ ai = 0
    /\ die = << >>
    /\ ri = 0
    /\ embeds = << >>
    /\ eret = Unit
    /\ reexp = FALSE
    /\ spc = "idle"
    /\ file = NoFile
    /\ fileFrom = "initial"
    /\ loadRet = Unit
    /\ hpc = [h \in Handlers |-> "idle"]
    /\ guard = 0
    /\ serial = EmptyMap


(* stamp.rs:20  TIME_REGEX.captures(hms)                                   *)
Captures ==
    /\ out.fn = "none"
    /\ out' = captures(text)
    /\ UNCHANGED <<userVars, cmdVars, evalVars, snapVars, concVars, text>>

Hms ==
    /\ out.fn = "captures"
    /\ out' = [fn |-> "hms", val |-> hms(out.val)]
    /\ UNCHANGED <<userVars, cmdVars, evalVars, snapVars, concVars, text>>

NextTime ==
    \/ Captures
    \/ Hms

SpecTime == InitTime /\ [][NextTime]_vars

----------------------------------------------------------------------------
(* Properties of the time pattern, checked under SpecTime.                 *)

(* The digits written before the h, between the h and the m, and between   *)
(* the m and the s of a text H h M m S s                                   *)
PlaceOf(s, c) == CHOOSE i \in 1..Len(s) : s[i] = c

HourText(s) == SubSeq(s, 1, PlaceOf(s, "h") - 1)

MinuteText(s) == SubSeq(s, PlaceOf(s, "h") + 1, PlaceOf(s, "m") - 1)

SecondText(s) == SubSeq(s, PlaceOf(s, "m") + 1, Len(s) - 1)

(* C29: a text <h>h<m>m<s>s whose three numbers are written with one or    *)
(* two digits is accepted by TIME_REGEX exactly when the hour is in 0..24, *)
(* the minute in 0..59 and the second in 0..59.                            *)
C29_TimeRegex ==
    (/\ out.fn \in {"captures", "no match"}
     /\ Len(HourText(text)) \in 1..2
     /\ Len(MinuteText(text)) \in 1..2
     /\ Len(SecondText(text)) \in 1..2)
    => (out.fn = "captures" <=>
            /\ ParseU32(HourText(text)) \in 0..24
            /\ ParseU32(MinuteText(text)) \in 0..59
            /\ ParseU32(SecondText(text)) \in 0..59)

====
